---------------------------- MODULE Spec2Model ----------------------------
(***************************************************************************)
(* Model of the visitor-list cleaner (src/app.py): clean_data, the         *)
(* validation pass of generate_excel, and the helpers they call.           *)
(*                                                                         *)
(* A cell of the sheet is either NaN (an empty cell, as pandas reads it)   *)
(* or a text: a sequence of one-character strings.  A DataFrame is a       *)
(* sequence of rows in positional order; a row is a record that carries    *)
(* its index label (idx) beside its thirteen columns.                      *)
(***************************************************************************)
EXTENDS Integers, Sequences, FiniteSets, TLC

VARIABLES
    visitor_sheet,   \* whether the uploaded workbook has a sheet named "...visitor..."
    df,              \* the rows read from that sheet (df_raw)
    df_cleaned,      \* what clean_data returned
    warning_rows,    \* generate_excel: the worksheet rows highlighted
    mismatch_count,  \* generate_excel: their number
    summary,         \* generate_excel: the Vehicles summary
    total_visitors,  \* generate_excel: the Total Visitors cell
    pc,              \* where the script is
    fn, arg, ret     \* a helper called on its own: its name, its argument,
                     \* and the results of its successive applications

vars ==
    <<visitor_sheet, df, df_cleaned, warning_rows, mismatch_count, summary,
      total_visitors, pc, fn, arg, ret>>

(***************************************************************************)
(* Characters and the str methods the code uses                            *)
(***************************************************************************)

\* The characters of the model, in code point order.
Ascii ==
    <<" ", "+", ",", "-", ".", "/",
      "0", "1", "2", "3", "4", "5", "6", "7", "8", "9", ";",
      "A", "B", "C", "D", "E", "F", "G", "H", "I", "J", "K", "L", "M",
      "N", "O", "P", "Q", "R", "S", "T", "U", "V", "W", "X", "Y", "Z",
      "a", "b", "c", "d", "e", "f", "g", "h", "i", "j", "k", "l", "m",
      "n", "o", "p", "q", "r", "s", "t", "u", "v", "w", "x", "y", "z">>

Chars == {Ascii[i] : i \in 1..Len(Ascii)}

Ord == [c \in Chars |-> CHOOSE i \in 1..Len(Ascii) : Ascii[i] = c]

FirstUpper == Ord["A"]
FirstLower == Ord["a"]
FirstDigit == Ord["0"]

IsUpper(c) == Ord[c] >= FirstUpper /\ Ord[c] < FirstUpper + 26
IsLower(c) == Ord[c] >= FirstLower /\ Ord[c] < FirstLower + 26
IsCased(c) == IsUpper(c) \/ IsLower(c)
IsDigit(c) == Ord[c] >= FirstDigit /\ Ord[c] < FirstDigit + 10
IsSpace(c) == c = " "

DigitVal(c) == Ord[c] - FirstDigit

ToLower == [c \in Chars |-> IF IsUpper(c) THEN Ascii[Ord[c] - FirstUpper + FirstLower] ELSE c]
ToUpper == [c \in Chars |-> IF IsLower(c) THEN Ascii[Ord[c] - FirstLower + FirstUpper] ELSE c]

\* str.lower(), str.upper()
lower(s) == [i \in 1..Len(s) |-> ToLower[s[i]]]
upper(s) == [i \in 1..Len(s) |-> ToUpper[s[i]]]

\* str.title(): a cased character is upper-cased when the character before it
\* is not cased, and lower-cased otherwise.
title(s) ==
    [i \in 1..Len(s) |->
        IF i > 1 /\ IsCased(s[i - 1]) THEN ToLower[s[i]] ELSE ToUpper[s[i]]]

\* str.strip()
RECURSIVE lstrip(_)
lstrip(s) == IF s # <<>> /\ IsSpace(Head(s)) THEN lstrip(Tail(s)) ELSE s

RECURSIVE rstrip(_)
rstrip(s) ==
    IF s # <<>> /\ IsSpace(s[Len(s)]) THEN rstrip(SubSeq(s, 1, Len(s) - 1)) ELSE s

strip(s) == rstrip(lstrip(s))

\* s[-n:]
last(s, n) == IF Len(s) <= n THEN s ELSE SubSeq(s, Len(s) - n + 1, Len(s))

\* c in s
contains(s, c) == \E i \in 1..Len(s) : s[i] = c

\* s < t, the order of Python's str (by code point, a prefix first)
RECURSIVE StrLess(_, _)
StrLess(s, t) ==
    IF t = <<>> THEN FALSE
    ELSE IF s = <<>> THEN TRUE
    ELSE IF Head(s) = Head(t) THEN StrLess(Tail(s), Tail(t))
    ELSE Ord[Head(s)] < Ord[Head(t)]

(***************************************************************************)
(* Missing values                                                          *)
(***************************************************************************)

\* An empty cell: NaN in the DataFrame, None in the worksheet.
NaN == <<"NaN">>

isna(v) == v = NaN

\* Series.astype(str) and str(row[...]) on a DataFrame cell: NaN reads "nan".
astype_str(v) == IF isna(v) THEN <<"n", "a", "n">> ELSE v

\* str(worksheet[...].value): DataFrame.to_excel writes NaN as an empty cell,
\* whose value is None.
cell_str(v) == IF isna(v) THEN <<"N", "o", "n", "e">> ELSE v

(***************************************************************************)
(* Text constants of the code                                              *)
(***************************************************************************)

s_nan        == <<"n", "a", "n">>
s_empty      == <<>>
s_singapore  == <<"s", "i", "n", "g", "a", "p", "o", "r", "e">>
s_malaysia   == <<"m", "a", "l", "a", "y", "s", "i", "a">>
s_india      == <<"i", "n", "d", "i", "a">>
s_yes        == <<"y", "e", "s">>
s_pr         == <<"p", "r">>
s_Singapore  == <<"S", "i", "n", "g", "a", "p", "o", "r", "e">>
s_Singaporean == <<"S", "i", "n", "g", "a", "p", "o", "r", "e", "a", "n">>
s_Chinese    == <<"C", "h", "i", "n", "e", "s", "e">>
s_China      == <<"C", "h", "i", "n", "a">>
s_Yes        == <<"Y", "e", "s">>
s_Pr         == <<"P", "r">>
s_NRIC       == <<"N", "R", "I", "C">>
s_FIN        == <<"F", "I", "N">>
s_M          == <<"M">>
s_F          == <<"F">>
s_MALE       == <<"M", "A", "L", "E">>
s_FEMALE     == <<"F", "E", "M", "A", "L", "E">>
s_Male       == <<"M", "a", "l", "e">>
s_Female     == <<"F", "e", "m", "a", "l", "e">>
s_0          == <<"0">>

(***************************************************************************)
(* nationality_group, split_name, clean_gender                             *)
(***************************************************************************)

\* nationality_group with the PR test ahead of the Singapore test.
nationality_group_pr_first(row) ==
    LET nationality == lower(strip(astype_str(row.nationality)))
        pr_status   == lower(strip(astype_str(row.pr)))
    IN  IF pr_status \in {s_yes, s_pr} THEN 2
        ELSE IF nationality = s_singapore THEN 1
        ELSE IF nationality = s_malaysia THEN 3
        ELSE IF nationality = s_india THEN 4
        ELSE 5

\* nationality_group(row): the sort group of a row, from its nationality
\* and PR cells as they are when the function is called.
nationality_group(row) ==
    LET nationality == lower(strip(astype_str(row.nationality)))
        pr_status   == lower(strip(astype_str(row.pr)))
    IN  IF nationality = s_singapore THEN 1
        ELSE IF pr_status \in {s_yes, s_pr} THEN 2
        ELSE IF nationality = s_malaysia THEN 3
        ELSE IF nationality = s_india THEN 4
        ELSE 5

\* name.find(" "): the position of the first space (0 when there is none)
find_space(s) ==
    IF contains(s, " ") THEN CHOOSE i \in 1..Len(s) : s[i] = " " /\ \A j \in 1..(i - 1) : s[j] # " "
    ELSE 0

\* split_name(name): <<first name, middle and last name>>
split_name(v) ==
    LET name == strip(astype_str(v))
        first_space == find_space(name)
    IN  IF first_space > 0
        THEN <<SubSeq(name, 1, first_space - 1), SubSeq(name, first_space + 1, Len(name))>>
        ELSE <<name, s_empty>>

\* clean_gender(val)
clean_gender(v) ==
    LET val == upper(strip(astype_str(v)))
    IN  IF val = s_M THEN s_Male
        ELSE IF val = s_F THEN s_Female
        ELSE IF val \in {s_MALE, s_FEMALE} THEN title(val)
        ELSE val

(***************************************************************************)
(* clean_data, step by step                                                *)
(***************************************************************************)

\* The columns D..M (df.columns[3:13]) of a row, Full Name through Mobile.
detail_cells(r) ==
    <<r.full_name, r.first_name, r.last_name, r.id_type, r.ic, r.wp,
      r.nationality, r.pr, r.gender, r.mobile>>

\* A row that dropna(subset=df.columns[3:13], how="all") drops.
all_na(r) == \A i \in 1..Len(detail_cells(r)) : isna(detail_cells(r)[i])

\* The row filter with the company column inside the subset (columns[2:13]).
keep_row_with_company(r) == ~all_na(r) \/ ~isna(r.company)

keep_row(r) == ~all_na(r)

\* 2. df.dropna(subset=df.columns[3:13], how="all")
dropna(t) == SelectSeq(t, keep_row)

\* The order sort_values gives two cells of a text column: NaN last.
cell_less(u, v) ==
    IF isna(u) THEN FALSE
    ELSE IF isna(v) THEN TRUE
    ELSE StrLess(u, v)

\* The order of two rows under by=[Company, SortGroup, Nationality, Full Name],
\* on the cells as they are when sort_values runs.
row_less(a, b) ==
    LET ga == nationality_group(a)
        gb == nationality_group(b)
    IN  IF a.company # b.company THEN cell_less(a.company, b.company)
        ELSE IF ga # gb THEN ga < gb
        ELSE IF a.nationality # b.nationality THEN cell_less(a.nationality, b.nationality)
        ELSE IF a.full_name # b.full_name THEN cell_less(a.full_name, b.full_name)
        ELSE FALSE

\* r put into the sorted t behind every row that is not greater: rows with
\* equal keys keep their order.
RECURSIVE insert_sorted(_, _)
insert_sorted(t, r) ==
    IF t = <<>> THEN <<r>>
    ELSE IF row_less(r, Head(t)) THEN <<r>> \o t
    ELSE <<Head(t)>> \o insert_sorted(Tail(t), r)

\* 3. df.sort_values(by=[...], inplace=True)
RECURSIVE sort_values(_)
sort_values(t) ==
    IF t = <<>> THEN <<>>
    ELSE insert_sorted(sort_values(SubSeq(t, 1, Len(t) - 1)), t[Len(t)])

\* The serials given in the order of the index labels, as numbering before
\* the sort would give them.
renumber_by_label(t) == [i \in 1..Len(t) |-> [t[i] EXCEPT !.sn = t[i].idx + 1]]

\* 4. df["S/N"] = range(1, len(df) + 1)
renumber(t) == [i \in 1..Len(t) |-> [t[i] EXCEPT !.sn = i]]

\* .str.replace(r"[\/\,]", ";", regex=True)
replace_delims(s) == [i \in 1..Len(s) |-> IF s[i] \in {"/", ","} THEN ";" ELSE s[i]]

\* Whether the run of spaces that holds s[i] touches a ";".
beside_semicolon(s, i) ==
    \/ \E j \in (i + 1)..Len(s) : s[j] = ";" /\ \A k \in i..(j - 1) : IsSpace(s[k])
    \/ \E j \in 1..(i - 1) : s[j] = ";" /\ \A k \in (j + 1)..i : IsSpace(s[k])

\* .str.replace(r"\s*;\s*", ";", regex=True)
RECURSIVE squeeze_from(_, _)
squeeze_from(s, i) ==
    IF i > Len(s) THEN <<>>
    ELSE IF IsSpace(s[i]) /\ beside_semicolon(s, i) THEN squeeze_from(s, i + 1)
    ELSE <<s[i]>> \o squeeze_from(s, i + 1)

squeeze_semicolons(s) == squeeze_from(s, 1)

\* 5. the Vehicle Plate Number cell
clean_plate(v) ==
    LET p == strip(squeeze_semicolons(replace_delims(astype_str(v))))
    IN  IF p = s_nan THEN s_empty ELSE p

\* 6. the Full Name cell, and the two cells split from it
clean_full_name(v) == title(astype_str(v))

\* Series.replace(nationality_map): a cell equal to a key becomes its value.
replace_nationality(v) ==
    IF v = s_Chinese THEN s_China
    ELSE IF v = s_Singaporean THEN s_Singapore
    ELSE v

\* 7. the Nationality cell
clean_nationality(v) == title(astype_str(replace_nationality(v)))

\* 8. whether the IC column holds a "-" in any row
is_swapped(t) == \E i \in 1..Len(t) : contains(astype_str(t[i].ic), "-")

\* The exchange decided row by row: only a row with a "-" in its own IC cell.
swap_cells_per_row(t, r) ==
    IF contains(astype_str(r.ic), "-") THEN [r EXCEPT !.ic = r.wp, !.wp = r.ic] ELSE r

\* 8. the IC and Work Permit cells of row r, exchanged when the table is swapped
swap_cells(t, r) ==
    IF is_swapped(t) THEN [r EXCEPT !.ic = r.wp, !.wp = r.ic] ELSE r

swap_columns(t) == [i \in 1..Len(t) |-> swap_cells(t, t[i])]

\* 9. the IC cell
clean_ic(v) == last(astype_str(v), 4)

\* Whether s is one or more digits.
is_digits(s) == s # <<>> /\ \A i \in 1..Len(s) : IsDigit(s[i])

\* Whether s is a decimal numeral with a point: digits, ".", digits, with a
\* digit on at least one side.
is_decimal(s) ==
    \E p \in 1..Len(s) :
        /\ s[p] = "."
        /\ \A i \in (1..Len(s)) \ {p} : IsDigit(s[i])
        /\ Len(s) > 1

\* The digits of an integer as str() prints it: no leading zeros.
RECURSIVE int_str(_)
int_str(ds) ==
    IF ds = <<>> THEN s_0
    ELSE IF Head(ds) = "0" /\ Len(ds) > 1 THEN int_str(Tail(ds))
    ELSE ds

\* 10. the Mobile Number cell: to_numeric(errors="coerce"), fillna(0),
\* astype(int), astype(str).  A numeral is kept as its digit string, so that
\* ten-digit numbers stay in range.
clean_mobile(v) ==
    IF isna(v) THEN s_0
    ELSE IF is_digits(v) THEN int_str(v)
    ELSE IF is_decimal(v)
         THEN int_str(SubSeq(v, 1, (CHOOSE p \in 1..Len(v) : v[p] = ".") - 1))
    ELSE s_0

\* The number a digit string reads.
RECURSIVE to_int(_)
to_int(ds) == IF ds = <<>> THEN 0 ELSE 10 * to_int(SubSeq(ds, 1, Len(ds) - 1)) + DigitVal(ds[Len(ds)])

is_leap(y) == (y % 4 = 0 /\ y % 100 # 0) \/ y % 400 = 0

days_in_month(y, m) ==
    IF m = 2 THEN (IF is_leap(y) THEN 29 ELSE 28)
    ELSE IF m \in {4, 6, 9, 11} THEN 30
    ELSE 31

\* Whether s reads YYYY-MM-DD and names a day a Timestamp can hold.
is_iso_date(s) ==
    /\ Len(s) = 10
    /\ s[5] = "-" /\ s[8] = "-"
    /\ \A i \in {1, 2, 3, 4, 6, 7, 9, 10} : IsDigit(s[i])
    /\ LET y == to_int(SubSeq(s, 1, 4))
           m == to_int(SubSeq(s, 6, 7))
           d == to_int(SubSeq(s, 9, 10))
       IN  /\ y \in 1678..2261
           /\ m \in 1..12
           /\ d \in 1..days_in_month(y, m)

\* 12. the Work Permit Expiry Date cell: to_datetime(errors="coerce") and
\* strftime("%Y-%m-%d").  The texts of the model are ISO dates, which parse to
\* themselves, and texts no date parser reads, which become NaT.
clean_expiry(v) == IF ~isna(v) /\ is_iso_date(v) THEN v ELSE NaN

\* Steps 5 to 7 on one row.
clean_names(r) ==
    LET full == clean_full_name(r.full_name)
    IN  [r EXCEPT !.plate = clean_plate(r.plate),
                  !.full_name = full,
                  !.first_name = split_name(full)[1],
                  !.last_name = split_name(full)[2],
                  !.nationality = clean_nationality(r.nationality)]

\* Steps 9 to 12 on one row.
clean_cells(r) ==
    [r EXCEPT !.ic = clean_ic(r.ic),
              !.mobile = clean_mobile(r.mobile),
              !.gender = clean_gender(r.gender),
              !.wp = clean_expiry(r.wp)]

\* clean_data(df)
clean_data(t) ==
    LET sorted  == renumber(sort_values(dropna(t)))
        named   == [i \in 1..Len(sorted) |-> clean_names(sorted[i])]
        swapped == swap_columns(named)
    IN  [i \in 1..Len(swapped) |-> clean_cells(swapped[i])]

(***************************************************************************)
(* generate_excel: the validation pass and the two summaries               *)
(***************************************************************************)

is_pr(pr_status) == pr_status \in {s_Yes, s_Pr}

\* The NRIC test without its PR exception.
nric_mismatch_no_pr(nationality, pr_status) == nationality # s_Singapore

\* The FIN test without its nationality half.
fin_mismatch_pr_only(nationality, pr_status) == is_pr(pr_status)

\* The test under id_type == "NRIC".
nric_mismatch(nationality, pr_status) ==
    ~(nationality = s_Singapore \/ (nationality # s_Singapore /\ is_pr(pr_status)))

\* The test under id_type == "FIN".
fin_mismatch(nationality, pr_status) ==
    nationality = s_Singapore \/ is_pr(pr_status)

\* highlight, for the worksheet row written from r
highlight(r) ==
    LET id_type     == upper(strip(cell_str(r.id_type)))
        nationality == title(strip(cell_str(r.nationality)))
        pr_status   == title(strip(cell_str(r.pr)))
    IN  \/ id_type = s_NRIC /\ nric_mismatch(nationality, pr_status)
        \/ id_type = s_FIN /\ fin_mismatch(nationality, pr_status)

\* warning_rows: the worksheet rows (2 is the first data row) highlighted,
\* in the order of the loop.
RECURSIVE warnings_upto(_, _)
warnings_upto(t, n) ==
    IF n = 0 THEN <<>>
    ELSE warnings_upto(t, n - 1) \o (IF highlight(t[n]) THEN <<n + 1>> ELSE <<>>)

validate(t) == warnings_upto(t, Len(t))

\* str.split(";")
RECURSIVE split_semicolon(_)
split_semicolon(s) ==
    IF ~contains(s, ";") THEN <<s>>
    ELSE LET p == CHOOSE i \in 1..Len(s) : s[i] = ";" /\ \A j \in 1..(i - 1) : s[j] # ";"
         IN  <<SubSeq(s, 1, p - 1)>> \o split_semicolon(SubSeq(s, p + 1, Len(s)))

\* The plates of one cell: [v.strip() for v in str(val).split(";") if v.strip()]
plates_of(v) ==
    LET parts == split_semicolon(astype_str(v))
    IN  {strip(parts[i]) : i \in 1..Len(parts)} \ {s_empty}

\* set(vehicles)
vehicles(t) == UNION {plates_of(t[i].plate) : i \in {j \in 1..Len(t) : ~isna(t[j].plate)}}

\* ";".join(sorted(set(vehicles))); nothing is written when there are none.
RECURSIVE join_sorted(_)
join_sorted(S) ==
    IF S = {} THEN <<>>
    ELSE LET m == CHOOSE x \in S : \A y \in S \ {x} : StrLess(x, y)
         IN  IF S = {m} THEN m ELSE m \o <<";">> \o join_sorted(S \ {m})

vehicle_summary(t) == join_sorted(vehicles(t))

\* df_cleaned["Company Full Name"].notna().sum()
count_visitors(t) == Cardinality({i \in 1..Len(t) : ~isna(t[i].company)})

(***************************************************************************)
(* Input values                                                            *)
(***************************************************************************)

v_A == <<"A", "c", "m", "e">>
v_B == <<"B", "e", "s", "t">>
v_bob == <<"b", "o", "b", " ", "t", "a", "n">>
v_Al == <<"A", "l", " ", "L", "i", "m">>
v_al == <<"a", "l", " ", "l", "i", "m">>
v_Singapore == <<"S", "i", "n", "g", "a", "p", "o", "r", "e">>
v_Singaporean == <<"S", "i", "n", "g", "a", "p", "o", "r", "e", "a", "n">>
v_singaporean == <<"s", "i", "n", "g", "a", "p", "o", "r", "e", "a", "n">>
v_SINGAPOREAN == <<"S", "I", "N", "G", "A", "P", "O", "R", "E", "A", "N">>
v_Malaysia == <<"M", "a", "l", "a", "y", "s", "i", "a">>
v_India == <<"I", "n", "d", "i", "a">>
v_China == <<"C", "h", "i", "n", "a">>
v_Chinese == <<"C", "h", "i", "n", "e", "s", "e">>
v_chinese == <<"c", "h", "i", "n", "e", "s", "e">>
v_CHINESE == <<"C", "H", "I", "N", "E", "S", "E">>
v_malaysian == <<"m", "a", "l", "a", "y", "s", "i", "a", "n">>
v_singapore_sp == <<" ", "S", "I", "N", "G", "A", "P", "O", "R", "E", " ">>
v_PR == <<"P", "R">>
v_pr_sp == <<" ", "p", "r", " ">>
v_Pr == <<"P", "r">>
v_pr == <<"p", "r">>
v_yes == <<"y", "e", "s">>
v_Yes == <<"Y", "e", "s">>
v_YES == <<"Y", "E", "S">>
v_y == <<"y">>
v_Y == <<"Y">>
v_No == <<"N", "o">>
v_NRIC == <<"N", "R", "I", "C">>
v_nric == <<"n", "r", "i", "c", " ">>
v_FIN == <<"F", "I", "N">>
v_WORK_PERMIT == <<"W", "O", "R", "K", " ", "P", "E", "R", "M", "I", "T">>
v_567A == <<"5", "6", "7", "A">>
v_123B == <<"1", "2", "3", "B">>
v_S1234567A == <<"S", "1", "2", "3", "4", "5", "6", "7", "A">>
v_12_A == <<"1", "2", "-", "A">>
v_date1 == <<"2", "0", "2", "5", "-", "0", "1", "-", "3", "1">>
v_date2 == <<"2", "0", "2", "6", "-", "0", "5", "-", "0", "1">>
v_baddate == <<"2", "0", "2", "5", "-", "0", "2", "-", "3", "0">>
v_plate1 == <<"S", "G", "X", "1", "2", "3", "4", "A", "/", "S", "G", "Y", "5", "6", "7", "8", "B", ",", " ", "S", "G", "Z", "9", "9", "9", "C">>
v_plate2 == <<"S", "G", "Y", "5", "6", "7", "8", "B", " ", ";", " ", "S", "B", "A", "1", "A">>
v_M == <<"m">>
v_Female == <<"f", "e", "m", "a", "l", "e">>
v_mob8 == <<"9", "1", "2", "3", "4", "5", "6", "7">>
v_mob10 == <<"6", "5", "9", "1", "2", "3", "4", "5", "6", "7">>
v_mob00 == <<"9", "1", "2", "3", "4", "5", "6", "7", "0", "0">>
v_mob4 == <<"1", "2", "3", "4">>
v_mob_sp == <<"9", "1", "2", "3", " ", "4", "5", "6", "7">>
v_mob_hy == <<"9", "1", "2", "3", "-", "4", "5", "6", "7">>
v_mob_dec == <<"9", "1", "2", "3", "4", "5", "6", "7", ".", "0">>
v_mob_lead == <<"0", "1", "2", "3">>

(***************************************************************************)
(* Inputs: the uploaded sheets                                             *)
(***************************************************************************)

\* The most rows of a sheet.
MaxRows == 2

\* The most rows of a sheet that varies the identification columns.
MaxIdRows == 1

\* The most applications of a helper called on its own.
MaxCalls == 2

DefaultRow ==
    [sn |-> 7, plate |-> NaN, company |-> v_A, full_name |-> v_bob,
     first_name |-> NaN, last_name |-> NaN, id_type |-> v_NRIC, ic |-> v_567A,
     wp |-> NaN, nationality |-> v_Singapore, pr |-> NaN, gender |-> v_M,
     mobile |-> v_mob8]

\* A row with its company, plate and serial set and nothing from Full Name
\* through Mobile.
BlankRow ==
    [sn |-> 3, plate |-> v_plate2, company |-> v_B, full_name |-> NaN,
     first_name |-> NaN, last_name |-> NaN, id_type |-> NaN, ic |-> NaN,
     wp |-> NaN, nationality |-> NaN, pr |-> NaN, gender |-> NaN,
     mobile |-> NaN]

\* A row with no company and only its full name set.
NameOnlyRow == [BlankRow EXCEPT !.sn = 0, !.plate = v_plate1, !.company = NaN, !.full_name = v_al]

\* Rows that differ in the sort columns, and some in the serial they carry.
SortRows ==
    {[DefaultRow EXCEPT !.company = c, !.nationality = n, !.pr = p, !.full_name = f] :
        c \in {v_A, v_B}, n \in {v_Singapore, v_Singaporean, v_Malaysia},
        p \in {NaN, v_PR}, f \in {v_bob, v_Al}}
    \cup {[DefaultRow EXCEPT !.sn = 2, !.nationality = n] : n \in {v_Malaysia, v_India}}
    \cup {BlankRow, NameOnlyRow}

\* Rows that differ in the columns the validation pass reads.
IdRows ==
    {[DefaultRow EXCEPT !.id_type = t, !.nationality = n, !.pr = p, !.wp = w] :
        t \in {v_NRIC, v_nric, v_FIN, v_WORK_PERMIT},
        n \in {v_Singapore, v_Malaysia, v_India},
        p \in {NaN, v_y, v_PR, v_yes, v_pr_sp, v_No},
        w \in {NaN, v_date1}}
    \cup {BlankRow}

\* Rows that differ in the IC and Work Permit columns.
SwapRows ==
    {[DefaultRow EXCEPT !.ic = i, !.wp = w, !.nationality = v_India, !.id_type = v_WORK_PERMIT,
                         !.gender = v_Female] :
        i \in {NaN, v_567A, v_S1234567A, v_date1, v_12_A},
        w \in {NaN, v_date2, v_123B, v_baddate}}
    \cup {BlankRow}

\* The DataFrame read from a sheet: row i carries the index label i - 1.
DataFrame(rows) == [i \in 1..Len(rows) |-> [idx |-> i - 1] @@ rows[i]]

\* df is read from a sheet of at most n rows drawn from S.
ReadSheet(S, n) == \E k \in 0..n : \E rows \in [1..k -> S] : df = DataFrame(rows)

(***************************************************************************)
(* The script: upload, clean_data, generate_excel                          *)
(***************************************************************************)

NoCall == fn = "none" /\ arg = <<>> /\ ret = <<>>

Init ==
    /\ visitor_sheet \in BOOLEAN
    /\ IF visitor_sheet
       THEN \/ ReadSheet(SortRows, MaxRows)
            \/ ReadSheet(SwapRows, MaxRows)
            \/ ReadSheet(IdRows, MaxIdRows)
       ELSE df = <<>>
    /\ df_cleaned = <<>>
    /\ warning_rows = <<>>
    /\ mismatch_count = 0
    /\ summary = <<>>
    /\ total_visitors = 0
    /\ pc = "uploaded"
    /\ NoCall

\* The workbook has no visitor sheet: st.error, and nothing is cleaned.
NoVisitorSheet ==
    /\ pc = "uploaded"
    /\ ~visitor_sheet
    /\ pc' = "rejected"
    /\ UNCHANGED <<visitor_sheet, df, df_cleaned, warning_rows, mismatch_count,
                   summary, total_visitors, fn, arg, ret>>

\* df_cleaned = clean_data(df_raw)
CleanData ==
    /\ pc = "uploaded"
    /\ visitor_sheet
    /\ df_cleaned' = clean_data(df)
    /\ pc' = "cleaned"
    /\ UNCHANGED <<visitor_sheet, df, warning_rows, mismatch_count, summary,
                   total_visitors, fn, arg, ret>>

\* When no row is left after dropna, df.apply(nationality_group, axis=1)
\* returns an empty DataFrame, and the pandas releases that refuse to set a
\* DataFrame of several columns to the one column "SortGroup" raise here.
CleanDataRaises ==
    /\ pc = "uploaded"
    /\ visitor_sheet
    /\ dropna(df) = <<>>
    /\ pc' = "raised"
    /\ UNCHANGED <<visitor_sheet, df, df_cleaned, warning_rows, mismatch_count,
                   summary, total_visitors, fn, arg, ret>>

\* output_buffer, mismatch_count = generate_excel(xlsx_dict, df_cleaned)
GenerateExcel ==
    /\ pc = "cleaned"
    /\ warning_rows' = validate(df_cleaned)
    /\ mismatch_count' = Len(validate(df_cleaned))
    /\ summary' = vehicle_summary(df_cleaned)
    /\ total_visitors' = count_visitors(df_cleaned)
    /\ pc' = "done"
    /\ UNCHANGED <<visitor_sheet, df, df_cleaned, fn, arg, ret>>

Next == NoVisitorSheet \/ CleanData \/ CleanDataRaises \/ GenerateExcel

Spec == Init /\ [][Next]_vars

(***************************************************************************)
(* The helpers called on their own                                         *)
(***************************************************************************)

NationalityCells ==
    {NaN, v_Singapore, v_singapore_sp, v_Singaporean, v_Malaysia, v_India, v_China,
     v_malaysian}

PrCells ==
    {NaN, v_yes, v_Yes, v_YES, v_y, v_Y, v_pr, v_Pr, v_PR, v_pr_sp, v_No}

\* The rows nationality_group is called on: the two cells it reads.
GroupArgs == [nationality : NationalityCells, pr : PrCells]

NationalityArgs ==
    {NaN, v_chinese, v_Chinese, v_CHINESE, v_singaporean, v_Singaporean,
     v_SINGAPOREAN, v_Singapore, v_China, v_malaysian, v_Malaysia, v_India,
     v_singapore_sp}

MobileArgs ==
    {NaN, v_mob8, v_mob10, v_mob00, v_mob4, v_mob_sp, v_mob_hy, v_mob_dec,
     v_mob_lead}

Idle ==
    /\ visitor_sheet = FALSE
    /\ df = <<>>
    /\ df_cleaned = <<>>
    /\ warning_rows = <<>>
    /\ mismatch_count = 0
    /\ summary = <<>>
    /\ total_visitors = 0

InitCall ==
    /\ Idle
    /\ pc = "call"
    /\ fn \in {"nationality_group", "clean_nationality", "clean_mobile"}
    /\ arg \in (IF fn = "nationality_group" THEN GroupArgs
                ELSE IF fn = "clean_nationality" THEN NationalityArgs
                ELSE MobileArgs)
    /\ ret = <<>>

\* nationality_group(row)
CallNationalityGroup ==
    /\ pc = "call"
    /\ fn = "nationality_group"
    /\ ret = <<>>
    /\ ret' = <<nationality_group(arg)>>
    /\ UNCHANGED <<visitor_sheet, df, df_cleaned, warning_rows, mismatch_count,
                   summary, total_visitors, pc, fn, arg>>

\* Step 7 of clean_data on one cell, and again on what it returned.
CallCleanNationality ==
    /\ pc = "call"
    /\ fn = "clean_nationality"
    /\ Len(ret) < MaxCalls
    /\ ret' = Append(ret, clean_nationality(IF ret = <<>> THEN arg ELSE ret[Len(ret)]))
    /\ UNCHANGED <<visitor_sheet, df, df_cleaned, warning_rows, mismatch_count,
                   summary, total_visitors, pc, fn, arg>>

\* Step 10 of clean_data on one cell.
CallCleanMobile ==
    /\ pc = "call"
    /\ fn = "clean_mobile"
    /\ ret = <<>>
    /\ ret' = <<clean_mobile(arg)>>
    /\ UNCHANGED <<visitor_sheet, df, df_cleaned, warning_rows, mismatch_count,
                   summary, total_visitors, pc, fn, arg>>

NextCall == CallNationalityGroup \/ CallCleanNationality \/ CallCleanMobile

SpecCall == InitCall /\ [][NextCall]_vars

(***************************************************************************)
(* What the properties are stated with                                     *)
(***************************************************************************)

\* Whether the cell v reads the word w, letter case and surrounding blanks
\* aside.  An empty cell reads no word.
SameText(v, w) ==
    /\ ~isna(v)
    /\ LET s == strip(v)
       IN  /\ Len(s) = Len(w)
           /\ \A i \in 1..Len(w) : ToUpper[s[i]] = ToUpper[w[i]]

\* The affirmative residency statuses as the specification lists them ...
AffirmativeYesYPr(v) == \E w \in {v_yes, v_y, v_pr} : SameText(v, w)

\* ... and without "y".
AffirmativeYesPr(v) == \E w \in {v_yes, v_pr} : SameText(v, w)

Cleaned == pc \in {"cleaned", "done"}

\* The worksheet rows that were flagged.
Flagged == {warning_rows[k] : k \in 1..Len(warning_rows)}

\* The worksheet row that holds df_cleaned[i]: row 1 is the header.
SheetRow(i) == i + 1

\* The index labels of the input rows with a cell set from Full Name to Mobile.
Retained == {df[i].idx : i \in {j \in 1..Len(df) : \E c \in 1..10 : ~isna(detail_cells(df[j])[c])}}

\* The input row that df_cleaned[i] was made from.
InputOf(i) == df[CHOOSE j \in 1..Len(df) : df[j].idx = df_cleaned[i].idx]

\* t is what is left of s when only its last four characters are kept.
IsLast4(t, s) ==
    /\ Len(t) = (IF Len(s) < 4 THEN Len(s) ELSE 4)
    /\ \A k \in 1..Len(t) : t[k] = s[Len(s) - Len(t) + k]

(***************************************************************************)
(* C1                                                                      *)
(***************************************************************************)

\* C1: the rows clean_data returns are in ascending order of the key
\* (organization, bucket, nationality, fullName) taken from their own output
\* values: no row is followed by a row with a smaller key.
C1_SortedByOutputKey ==
    Cleaned =>
        \A i \in 1..(Len(df_cleaned) - 1) : ~row_less(df_cleaned[i + 1], df_cleaned[i])

(***************************************************************************)
(* C2                                                                      *)
(***************************************************************************)

\* The first rule that matches, among: Singapore, affirmative, Malaysia,
\* India, anything.
FirstRule(rules) == CHOOSE k \in 1..Len(rules) : rules[k] /\ \A j \in 1..(k - 1) : ~rules[j]

BucketYesYPr(row) ==
    FirstRule(<<SameText(row.nationality, v_Singapore), AffirmativeYesYPr(row.pr),
                SameText(row.nationality, v_Malaysia), SameText(row.nationality, v_India),
                TRUE>>)

BucketYesPr(row) ==
    FirstRule(<<SameText(row.nationality, v_Singapore), AffirmativeYesPr(row.pr),
                SameText(row.nationality, v_Malaysia), SameText(row.nationality, v_India),
                TRUE>>)

C4_WorkPermitNeedsExpiry ==
    pc = "done" =>
        \A i \in 1..Len(df_cleaned) :
            (/\ SameText(df_cleaned[i].id_type, v_WORK_PERMIT)
             /\ df_cleaned[i].wp \in {NaN, s_empty})
                => (SheetRow(i) \in Flagged /\ mismatch_count >= 1)

\* C5: every FIN row whose nationality is Singapore is flagged, whatever its
\* residency status.
C5_FinSingapore ==
    pc = "done" =>
        \A i \in 1..Len(df_cleaned) :
            (/\ SameText(df_cleaned[i].id_type, s_FIN)
             /\ SameText(df_cleaned[i].nationality, v_Singapore))
                => SheetRow(i) \in Flagged

\* A FIN/Singapore row with no residency status was flagged.
C5_Witness ==
    /\ pc = "done"
    /\ \E i \in 1..Len(df_cleaned) :
        /\ df_cleaned[i].id_type = v_FIN
        /\ df_cleaned[i].nationality = v_Singapore
        /\ isna(df_cleaned[i].pr)
        /\ SheetRow(i) \in Flagged

(***************************************************************************)
(* C6, C8, C9                                                              *)
(***************************************************************************)

\* C6: with N input rows surviving the row filter, the S/N values of the
\* output rows, read in row order, are 1, 2, ..., N.
C6_SerialDense ==
    Cleaned =>
        /\ Len(df_cleaned) = Cardinality(Retained)
        /\ \A i \in 1..Len(df_cleaned) : df_cleaned[i].sn = i

\* Two rows survived, changed places in the sort, and carried other serials in.
C6_Witness ==
    /\ pc = "cleaned"
    /\ Len(df_cleaned) = 2
    /\ df_cleaned[1].idx = 1
    /\ \A i \in 1..Len(df) : df[i].sn \notin {1, 2}

\* C8: the output holds exactly the input rows with a cell set somewhere
\* from Full Name to Mobile, each once.
C8_RowFilter ==
    Cleaned =>
        /\ {df_cleaned[i].idx : i \in 1..Len(df_cleaned)} = Retained
        /\ \A i, j \in 1..Len(df_cleaned) : df_cleaned[i].idx = df_cleaned[j].idx => i = j

\* A row with only company, plate and serial set was dropped, and a row with
\* no company but a full name was kept.
C8_Witness ==
    /\ pc = "cleaned"
    /\ \E i \in 1..Len(df) : ~isna(df[i].company) /\ df[i].idx \notin Retained
    /\ \E i \in 1..Len(df_cleaned) : isna(df_cleaned[i].company) /\ ~isna(InputOf(i).full_name)

\* Whether some retained input row has a hyphen in its IC cell.
AnyHyphen == \E i \in 1..Len(df) : df[i].idx \in Retained /\ contains(astype_str(df[i].ic), "-")

\* C9: if any retained row's IC cell has a hyphen, every output row has the
\* last four characters of its input Work Permit cell as IC and the date of
\* its input IC cell as Work Permit; otherwise every output row keeps its own
\* columns.  Either way no output IC is longer than four characters.
C9_SwapAllOrNone ==
    Cleaned =>
        \A i \in 1..Len(df_cleaned) :
            /\ IsLast4(df_cleaned[i].ic,
                       astype_str(IF AnyHyphen THEN InputOf(i).wp ELSE InputOf(i).ic))
            /\ df_cleaned[i].wp = clean_expiry(IF AnyHyphen THEN InputOf(i).ic ELSE InputOf(i).wp)
            /\ Len(df_cleaned[i].ic) <= 4

\* One row had a date in its IC cell and another had none, and both came out
\* swapped.
C9_Witness ==
    /\ pc = "cleaned"
    /\ \E i, j \in 1..Len(df_cleaned) :
        /\ InputOf(i).ic = v_date1 /\ InputOf(i).wp = v_123B
        /\ InputOf(j).ic = v_567A /\ InputOf(j).wp = v_date2
        /\ df_cleaned[i].wp = v_date1 /\ df_cleaned[i].ic = v_123B
        /\ isna(df_cleaned[j].wp) /\ df_cleaned[j].ic = last(v_date2, 4)

(***************************************************************************)
(* C7, C10                                                                 *)
(***************************************************************************)

\* C7: normalizing a nationality twice gives what normalizing it once gives.
C7_Idempotent ==
    (fn = "clean_nationality" /\ Len(ret) >= 2) => ret[2] = ret[1]

\* The digits of a text, in order.
RECURSIVE digits_of(_)
digits_of(s) ==
    IF s = <<>> THEN <<>>
    ELSE (IF IsDigit(Head(s)) THEN <<Head(s)>> ELSE <<>>) \o digits_of(Tail(s))

RECURSIVE zeros(_)
zeros(n) == IF n <= 0 THEN <<>> ELSE <<"0">> \o zeros(n - 1)

\* The mobile number policy of the specification: digits only; more than
\* eight digits lose their excess trailing zeros, or else all but the last
\* eight; fewer than eight are padded with zeros on the left.
MobilePolicy(v) ==
    LET d == digits_of(IF isna(v) THEN <<>> ELSE v)
        n == Len(d)
    IN  IF n > 8
        THEN (IF \A k \in 9..n : d[k] = "0" THEN SubSeq(d, 1, 8) ELSE SubSeq(d, n - 7, n))
        ELSE zeros(8 - n) \o d

\* C10: the Mobile Number cell comes out as the policy above makes it.
C10_MobilePolicy ==
    (fn = "clean_mobile" /\ ret # <<>>) => ret[1] = MobilePolicy(arg)

=============================================================================
